---- MODULE Spec2Model ----
(***************************************************************************)
(* Model of the product research agent: the two marketplace extractors     *)
(* (tools/alibaba_tool.py, tools/amazon_tool.py), the orchestrator         *)
(* (src/agents/product_agent.py), the advisory client (src/llm_client.py,  *)
(* src/agents/reasoning_agent.py) and the GUI worker thread                *)
(* (src/ui/main_window.py).                                                *)
(*                                                                         *)
(* Text is a sequence of one-character strings, so that str.strip() is     *)
(* computed and not assumed.  A DOM lookup yields an element record:       *)
(* [found |-> FALSE] for None, [found |-> TRUE, text |-> t] otherwise.     *)
(***************************************************************************)
EXTENDS Integers, Sequences, FiniteSets, TLC

\* ------------------------------------------------------------------ bounds
MaxProducts == 2      \* largest max_products the search panel is given
MaxCards == 2         \* largest number of result cards a selector resolves to

\* ------------------------------------------------------------------- text
NA == <<"N", "/", "A">>
BLANK == <<" ">>
NoElem == [found |-> FALSE]
Elem(t) == [found |-> TRUE, text |-> t]

Min(a, b) == IF a < b THEN a ELSE b

RECURSIVE lstrip(_)
lstrip(s) == IF s # <<>> /\ Head(s) = " " THEN lstrip(Tail(s)) ELSE s

RECURSIVE rstrip(_)
rstrip(s) == IF s # <<>> /\ s[Len(s)] = " " THEN rstrip(SubSeq(s, 1, Len(s) - 1)) ELSE s

strip(s) == rstrip(lstrip(s))

\* --------------------------------------------------------------- the page
\* A result card as the extractor's queries see it: what each title
\* alternative and each price alternative resolves to, the anchor's href,
\* and whether a query on the card raises.
Card(ts, ps, link, raises) == [titles |-> ts, prices |-> ps, link |-> link, raises |-> raises]

CardGoodA == Card(<<NoElem, NoElem, Elem(<<" ", "a", " ">>), NoElem>>,
                  <<NoElem, Elem(<<"1", " ">>), NoElem>>, Elem(<<"/", "a">>), FALSE)
CardGoodB == Card(<<Elem(<<"b">>), Elem(<<"x">>), NoElem, NoElem>>,
                  <<Elem(BLANK), Elem(<<"2">>), NoElem>>, Elem(<<"http", "b">>), FALSE)
CardBlankFirst == Card(<<Elem(BLANK), Elem(<<"c">>), NoElem, NoElem>>,
                  <<NoElem, NoElem, NoElem>>, NoElem, FALSE)
CardBlankOnly == Card(<<NoElem, Elem(BLANK), NoElem, Elem(<<>>)>>,
                  <<NoElem, NoElem, NoElem>>, NoElem, FALSE)
CardNoTitle == Card(<<NoElem, NoElem, NoElem, NoElem>>,
                  <<Elem(<<"4">>), NoElem, NoElem>>, Elem(<<"/", "e">>), FALSE)
CardRaises == Card(<<Elem(<<"f">>), NoElem, NoElem, NoElem>>,
                  <<Elem(<<"5">>), NoElem, NoElem>>, Elem(<<"/", "f">>), TRUE)

CardKinds == {CardGoodA, CardGoodB, CardBlankFirst, CardBlankOnly, CardNoTitle, CardRaises}

RECURSIVE SeqsUpTo(_, _)
SeqsUpTo(S, n) == IF n = 0 THEN {<<>>}
                  ELSE LET P == SeqsUpTo(S, n - 1)
                       IN P \cup {Append(p, x) : p \in {q \in P : Len(q) = n - 1}, x \in S}

\* query_selector_all after a successful wait_for_selector: one card or more
CardLists == {cs \in SeqsUpTo(CardKinds, MaxCards) : cs # <<>>}

\* ------------------------------------------------------ the two extractors
ALIBABA_BASE_URL == <<"http", "alibaba">>
AMAZON_BASE_URL == <<"http", "amazon">>

\* url = href if link_elem else None; made absolute when it is relative
ResolveUrl(link, base) ==
    IF ~link.found THEN NoElem
    ELSE IF link.text # <<>> /\ Head(link.text) # "http" THEN Elem(base \o link.text)
    ELSE link

\* first alternative whose element exists (0 when none does)
RECURSIVE FirstFoundFrom(_, _)
FirstFoundFrom(elems, i) ==
    IF i > Len(elems) THEN 0
    ELSE IF elems[i].found THEN i
    ELSE FirstFoundFrom(elems, i + 1)

\* alibaba_tool.py: title = "N/A"; the first existing element's text wins
AlibabaTitle(card) ==
    LET i == FirstFoundFrom(card.titles, 1)
    IN IF i = 0 THEN NA ELSE card.titles[i].text

AlibabaPrice(card) ==
    LET i == FirstFoundFrom(card.prices, 1)
    IN IF i = 0 THEN NA ELSE card.prices[i].text

\* whether the card is appended: "if title != 'N/A'"
AlibabaKeep(title) == title # NA

\* one iteration of the loop over the cards: <<record>> or <<>>
AlibabaCard(card) ==
    IF card.raises THEN <<>>
    ELSE LET title == AlibabaTitle(card)
             price == AlibabaPrice(card)
         IN IF AlibabaKeep(title)
            THEN << [source |-> "alibaba", title |-> strip(title), price |-> strip(price),
                     url |-> ResolveUrl(card.link, ALIBABA_BASE_URL),
                     moq |-> "Contact supplier", seller_years |-> "Unknown"] >>
            ELSE <<>>

\* the slice forgotten: every card is processed
TruncateNone(cards, max_results) == cards

\* product_cards[:max_results]
Truncate(cards, max_results) == SubSeq(cards, 1, Min(max_results, Len(cards)))

\* a card that yields nothing ends the loop instead of being skipped
RECURSIVE AlibabaLoopAbort(_)
AlibabaLoopAbort(cards) ==
    IF cards = <<>> \/ AlibabaCard(Head(cards)) = <<>> THEN <<>>
    ELSE AlibabaCard(Head(cards)) \o AlibabaLoopAbort(Tail(cards))

RECURSIVE AlibabaLoop(_)
AlibabaLoop(cards) ==
    IF cards = <<>> THEN <<>> ELSE AlibabaCard(Head(cards)) \o AlibabaLoop(Tail(cards))

AlibabaExtract(cards, max_results) == AlibabaLoop(Truncate(cards, max_results))

\* amazon_tool.py: title = None; an existing element's text is taken and the
\* search stops at the first text that is non-empty after strip
RECURSIVE AmazonTitleFrom(_, _, _)
AmazonTitleFrom(elems, i, title) ==
    IF i > Len(elems) THEN title
    ELSE IF elems[i].found
         THEN IF strip(elems[i].text) # <<>> THEN elems[i]
              ELSE AmazonTitleFrom(elems, i + 1, elems[i])
         ELSE AmazonTitleFrom(elems, i + 1, title)

AmazonTitle(card) == AmazonTitleFrom(card.titles, 1, NoElem)

\* "if not title or not title.strip(): continue"
AmazonSkip(title) == ~title.found \/ strip(title.text) = <<>>

RECURSIVE AmazonPriceFrom(_, _)
AmazonPriceFrom(elems, i) ==
    IF i > Len(elems) THEN NA
    ELSE IF elems[i].found /\ strip(elems[i].text) # <<>> THEN strip(elems[i].text)
    ELSE AmazonPriceFrom(elems, i + 1)

AmazonPrice(card) == AmazonPriceFrom(card.prices, 1)

AmazonCard(card) ==
    IF card.raises THEN <<>>
    ELSE LET title == AmazonTitle(card)
         IN IF AmazonSkip(title) THEN <<>>
            ELSE << [source |-> "amazon", title |-> strip(title.text), price |-> AmazonPrice(card),
                     url |-> ResolveUrl(card.link, AMAZON_BASE_URL),
                     moq |-> "None", seller_years |-> "None"] >>

RECURSIVE AmazonLoop(_)
AmazonLoop(cards) ==
    IF cards = <<>> THEN <<>> ELSE AmazonCard(Head(cards)) \o AmazonLoop(Tail(cards))

AmazonExtract(cards, max_results) == AmazonLoop(Truncate(cards, max_results))


\* --------------------------------------------------------- advisory client
\* What the advisory service does with one POST /v1/chat/completions.
LLMResponses == {"conn_error", "non2xx", "not_json", "missing_key",
                 "empty_choices", "null_choices",
                 "ok_object", "ok_bad_steps", "ok_list", "ok_prose", "ok_empty"}

\* raise_for_status's HTTPError left uncaught
LLMQueryStatusRaises(resp) ==
    IF resp = "non2xx" THEN [raised |-> "HTTPError", text |-> "empty"]
    ELSE [raised |-> "none", text |-> "empty"]

\* LLMClient.query: the text returned, or the exception that leaves query
LLMQuery(resp) ==
    IF resp \in {"conn_error", "non2xx", "not_json"}
    THEN [raised |-> "none", text |-> "empty"]        \* RequestException
    ELSE IF resp = "missing_key"
    THEN [raised |-> "none", text |-> "empty"]        \* KeyError
    ELSE IF resp = "empty_choices"
    THEN [raised |-> "IndexError", text |-> "empty"]
    ELSE IF resp = "null_choices"
    THEN [raised |-> "TypeError", text |-> "empty"]
    ELSE [raised |-> "none",
          text |-> CASE resp = "ok_object" -> "object"
                     [] resp = "ok_bad_steps" -> "bad_steps"
                     [] resp = "ok_list" -> "list"
                     [] resp = "ok_prose" -> "prose"
                     [] OTHER -> "empty"]

\* ReasoningAgent.plan_research after the query: _parse_json, and the default
\* plan when parsing raises
PlanOf(text) ==
    IF text \in {"object", "bad_steps", "list"} THEN text ELSE "default"

\* research_product lines 60-61: plan.get('goal', ...), len(plan.get('steps', []))
PlanPrintRaises(plan) ==
    CASE plan = "list" -> "AttributeError"
      [] plan = "bad_steps" -> "TypeError"
      [] OTHER -> "none"

\* the log of advisory requests: how many were answered, and whether every
\* one of them was answered with a non-2xx status
NoRequests == [requests |-> 0, all_non2xx |-> TRUE]
Logged(log, resp) == [requests |-> log.requests + 1,
                      all_non2xx |-> log.all_non2xx /\ resp = "non2xx"]

\* ------------------------------------------------------------------ state
Platforms == {"google_trends", "alibaba", "amazon"}

ALIBABA_SELECTORS == <<".organic-list-offer", "[class*=search-card]",
                       "[class*=product-card]", ".gallery-offer-card">>
AMAZON_SELECTOR == "[data-component-type=s-search-result]"

NoResult == [state |-> "unset"]
NoTool == [name |-> "none", sel |-> 0, products |-> <<>>, env |-> NoResult]
NoDom == [match |-> {}, from |-> "none"]
NoFixture == [set |-> FALSE]
Skipped == [state |-> "skipped", products |-> <<>>]
Envelope(ok, prods) == [state |-> "returned", success |-> ok, products |-> prods]

VARIABLES
    pc,                \* where the worker thread stands ("none": no worker yet)
    gui_status,        \* what the main window last showed
    search_params,     \* ResearchWorker.search_params
    is_running,        \* ResearchWorker._is_running
    terminating,       \* QThread.terminate() has been called on the worker
    stop_at_gate,      \* stop() was called between the two marketplaces
    browser,           \* ProductResearchAgent.browser: "none", "open", "closed"
    platforms_enabled, \* ProductResearchAgent.platforms_enabled
    products,          \* ProductResearchAgent.products
    result,            \* research_product's alibaba_result and amazon_result
    tool,              \* the extractor executing: name, selector index, products, envelope
    page,              \* the site the shared page has loaded ("none": no page
                       \* object yet, "blank": a page that has loaded nothing)
    dom,               \* what the loaded page holds for the executing extractor:
                       \* the container selectors that resolve, and the selector
                       \* the cards were queried with last
    fixture,           \* the page served to the extractor when it is a fixed one:
                       \* the selectors that resolve and the cards they resolve to
    headers,           \* whether extra HTTP headers are set on the page
    tried,             \* container selectors awaited by the executing extractor
    calls,             \* extractors whose execute was entered, in order
    response,          \* the advisory response being handled (local to query)
    llm_log,           \* the advisory requests answered so far
    exc,               \* the exception in flight, "none" when there is none
    emit_i,            \* index of the worker's loop over the returned products
    stats,             \* the worker's summary statistics
    events,            \* signals the worker has emitted, in order
    exit_code,         \* the command-line process: "none" while it runs (and in
                       \* the GUI), then its exit status
    analysis,          \* the counts analyze_results was called with, once called
    prior,             \* what an earlier research_product call on the same agent
                       \* returned, when there was one
    delivered,         \* how many of the worker's finished and error signals the
                       \* main window has handled
    old_worker         \* "running" while a worker the window no longer refers to
                       \* is still executing

vars == <<pc, gui_status, search_params, is_running, terminating, stop_at_gate, browser,
          platforms_enabled, products, result, tool, page, dom, fixture, headers, tried, calls,
          response, llm_log, exc, emit_i, stats, events, exit_code,
          analysis, prior, delivered, old_worker>>

windowVars == <<delivered, old_worker>>

guiVars == <<gui_status, search_params>>
stopVars == <<is_running, terminating, stop_at_gate>>
agentVars == <<browser, platforms_enabled, products, result>>
toolVars == <<tool, page, dom, headers, tried, calls>>
workerVars == <<exc, emit_i, stats, events>>
llmVars == <<response, llm_log>>

DefaultPlatforms == [p \in Platforms |-> TRUE]

Init ==
    /\ pc = "none"
    /\ gui_status = "ready"
    /\ search_params = [platforms |-> DefaultPlatforms, max_products |-> 1]
    /\ is_running = TRUE
    /\ terminating = FALSE
    /\ stop_at_gate = FALSE
    /\ browser = "none"
    /\ platforms_enabled = DefaultPlatforms
    /\ products = <<>>
    /\ result = [m \in {"alibaba", "amazon"} |-> NoResult]
    /\ tool = NoTool
    /\ page = "none"
    /\ dom = NoDom
    /\ fixture = NoFixture
    /\ headers = FALSE
    /\ tried = <<>>
    /\ calls = <<>>
    /\ response = "none"
    /\ llm_log = NoRequests
    /\ exc = "none"
    /\ emit_i = 0
    /\ stats = NoResult
    /\ events = <<>>
    /\ exit_code = "none"
    /\ analysis = NoResult
    /\ prior = NoResult
    /\ delivered = 0
    /\ old_worker = "none"

\* what the page can hold: anything on the live site, the fixture when fixed
PageMatches(selectors) ==
    IF fixture.set THEN {fixture.match \cap selectors} ELSE SUBSET selectors

PageCards == IF fixture.set THEN {fixture.cards} ELSE CardLists

Emit(sig, arg) == Append(events, [sig |-> sig, arg |-> arg])

\* ------------------------------------------------------------ main window
\* MainWindow.on_search_requested: refuse when no platform is ticked,
\* otherwise create and start the worker
AnyPlatform(platforms) == \E p \in DOMAIN platforms : platforms[p]

OnSearchRequested ==
    /\ pc = "none"
    /\ \E pl \in [Platforms -> BOOLEAN], n \in 1..MaxProducts :
         IF ~AnyPlatform(pl)
         THEN /\ gui_status' = "no_platforms"
              /\ UNCHANGED <<pc, search_params>>
         ELSE /\ gui_status' = "researching"
              /\ search_params' = [platforms |-> pl, max_products |-> n]
              /\ pc' = "w_setup"
    /\ UNCHANGED <<fixture, windowVars, prior, exit_code, analysis, stopVars, agentVars, toolVars, llmVars, workerVars>>

WorkerIsRunning == pc \notin {"none", "done", "terminated"}

\* MainWindow.stop_research: worker.stop(), worker.terminate(); wait() then
\* blocks until the thread has ended
StopResearch ==
    /\ WorkerIsRunning
    /\ ~terminating
    /\ is_running' = FALSE
    /\ terminating' = TRUE
    /\ stop_at_gate' = (pc = "rp_amazon")
    /\ UNCHANGED <<fixture, windowVars, prior, exit_code, analysis, pc, guiVars, agentVars, toolVars, llmVars, workerVars>>

\* the thread ends where it stands, some time after terminate(); its frames
\* are gone, the objects it shared with the main window stay as they are
Terminate ==
    /\ terminating
    /\ WorkerIsRunning
    /\ pc' = "terminated"
    /\ gui_status' = "stopped"
    /\ tool' = NoTool
    /\ dom' = NoDom
    /\ tried' = <<>>
    /\ response' = "none"
    /\ exc' = "none"
    /\ emit_i' = 0
    /\ result' = [m \in {"alibaba", "amazon"} |-> NoResult]
    /\ stats' = NoResult
    /\ analysis' = NoResult
    /\ UNCHANGED <<fixture, windowVars, prior, exit_code, search_params, stopVars, browser, platforms_enabled, products, page,
                   headers, calls, llm_log, events>>


\* ------------------------------------------------------------- the worker
\* _run_research lines 56-78: parameters, Config, the Initialization phase,
\* the advisory health probe (logged only), the agent and its platforms
WorkerSetup ==
    /\ pc = "w_setup"
    /\ platforms_enabled' = search_params.platforms
    /\ events' = Emit("phase_changed", "Initialization")
    /\ pc' = "w_initialize"
    /\ UNCHANGED <<fixture, windowVars, prior, exit_code, analysis, guiVars, stopVars, browser, products, result, toolVars, llmVars,
                   exc, emit_i, stats>>

\* initialize raising sends the caller to its except clause
InitializeNextIgnore(out) == "w_phases"

\* where the caller of initialize goes on: after the call, or in its except
InitializeNext(out) == IF out = "ok" THEN "w_phases" ELSE "w_except"

\* ProductResearchAgent.initialize: launching the browser may fail, and so
\* may opening the page once self.browser is assigned
AgentInitialize ==
    /\ pc = "w_initialize"
    /\ \E out \in {"ok", "launch_failed", "page_failed"} :
         /\ browser' = IF out = "launch_failed" THEN "none" ELSE "open"
         /\ page' = IF out = "ok" THEN "blank" ELSE "none"
         /\ exc' = IF out = "ok" THEN "none" ELSE "BrowserError"
         /\ pc' = InitializeNext(out)
    /\ UNCHANGED <<fixture, windowVars, prior, exit_code, analysis, guiVars, stopVars, platforms_enabled, products, result,
                   tool, dom, headers, tried, calls, llmVars, emit_i, stats, events>>

\* the Market Research phase announced whatever the toggle
MarketResearchAlways(platforms) == TRUE

\* "if platforms['google_trends']"
MarketResearchEntered(platforms) == platforms["google_trends"]

\* _run_research lines 84-99: the optional Market Research notice, then the
\* Product Research phase
WorkerPhases ==
    /\ pc = "w_phases"
    /\ events' = LET e1 == IF MarketResearchEntered(search_params.platforms)
                           THEN Emit("phase_changed", "Market Research")
                           ELSE events
                 IN Append(e1, [sig |-> "phase_changed", arg |-> "Product Research"])
    /\ pc' = "rp_plan"
    /\ UNCHANGED <<fixture, windowVars, prior, exit_code, analysis, guiVars, stopVars, agentVars, toolVars, llmVars, exc, emit_i, stats>>

\* ------------------------------------------------------- research_product
\* criteria.max_results = Config.MAX_PRODUCTS_PER_SITE, set by the worker
MaxResults == search_params.max_products

\* plan_research: the advisory request
PlanQuery ==
    /\ pc = "rp_plan"
    /\ \E r \in LLMResponses :
         LET q == LLMQuery(r)
         IN /\ llm_log' = Logged(llm_log, r)
            /\ IF q.raised # "none"
               THEN /\ exc' = q.raised
                    /\ pc' = "w_except"
                    /\ UNCHANGED response
               ELSE /\ response' = q.text
                    /\ pc' = "rp_plan_parse"
                    /\ UNCHANGED exc
    /\ UNCHANGED <<fixture, windowVars, prior, exit_code, analysis, guiVars, stopVars, agentVars, toolVars, emit_i, stats, events>>

\* plan_research's parse, then the two prints of the plan
PlanParse ==
    /\ pc = "rp_plan_parse"
    /\ LET raises == PlanPrintRaises(PlanOf(response))
       IN /\ exc' = raises
          /\ pc' = IF raises = "none" THEN "rp_alibaba" ELSE "w_except"
    /\ response' = "none"
    /\ UNCHANGED <<fixture, windowVars, prior, exit_code, analysis, guiVars, stopVars, agentVars, toolVars, llm_log, emit_i, stats, events>>

\* the new items put in front
ExtendFront(list, items) == items \o list

\* the list replaced by the new items
ExtendReplace(list, items) == items

\* list.extend
Extend(list, items) == list \o items

\* the toggles ignored
PlatformAlways(m) == TRUE

\* a marketplace run only while no earlier one has failed
PlatformAfterSuccess(m) ==
    /\ IF m \in DOMAIN platforms_enabled THEN platforms_enabled[m] ELSE TRUE
    /\ \A k \in DOMAIN result : result[k].state = "returned" => result[k].success

\* a missing key read as disabled
PlatformDefaultOff(m) == IF m \in DOMAIN platforms_enabled THEN platforms_enabled[m] ELSE FALSE

\* self.platforms_enabled.get(m, True)
PlatformEnabled(m) == IF m \in DOMAIN platforms_enabled THEN platforms_enabled[m] ELSE TRUE

\* the call fired and not awaited: the caller goes on at once
NotAwaited(inside, after) == after

\* "await tool.execute(criteria)": the caller stands inside the call until it
\* returns, and only then goes on after it
Awaited(inside, after) == inside

\* lines 67-75: run the Alibaba tool, or skip it
AlibabaGate ==
    /\ pc = "rp_alibaba"
    /\ IF PlatformEnabled("alibaba")
       THEN /\ calls' = Append(calls, "alibaba")
            /\ tool' = [NoTool EXCEPT !.name = "alibaba", !.sel = 1]
            /\ tried' = <<>>
            /\ pc' = Awaited("ali_headers", "rp_amazon")
            /\ UNCHANGED result
       ELSE /\ result' = [result EXCEPT !["alibaba"] = Skipped]
            /\ pc' = "rp_amazon"
            /\ UNCHANGED <<calls, tool, tried>>
    /\ UNCHANGED <<fixture, windowVars, prior, exit_code, analysis, guiVars, stopVars, browser, platforms_enabled, products, page, dom,
                   headers, llmVars, workerVars>>

\* the envelope of execute's outer except
Failure == Envelope(FALSE, <<>>)

\* AlibabaScraperTool.execute: set_extra_http_headers
AlibabaSetHeaders ==
    /\ pc = "ali_headers"
    /\ \E ok \in BOOLEAN :
         IF ok
         THEN /\ headers' = TRUE
              /\ pc' = "ali_goto"
              /\ UNCHANGED tool
         ELSE /\ tool' = [tool EXCEPT !.env = Failure]
              /\ pc' = "ali_return"
              /\ UNCHANGED headers
    /\ UNCHANGED <<fixture, windowVars, prior, exit_code, analysis, guiVars, stopVars, agentVars, page, dom, tried, calls, llmVars, workerVars>>

AlibabaSelectorSet == {ALIBABA_SELECTORS[i] : i \in DOMAIN ALIBABA_SELECTORS}

\* page.goto(search_url): the page that loads resolves some of the selectors
AlibabaGoto ==
    /\ pc = "ali_goto"
    /\ \E ok \in BOOLEAN, m \in PageMatches(AlibabaSelectorSet) :
         IF ok
         THEN /\ page' = "alibaba"
              /\ dom' = [NoDom EXCEPT !.match = m]
              /\ pc' = "ali_select"
              /\ UNCHANGED tool
         ELSE /\ tool' = [tool EXCEPT !.env = Failure]
              /\ pc' = "ali_return"
              /\ UNCHANGED <<page, dom>>
    /\ UNCHANGED <<fixture, windowVars, prior, exit_code, analysis, guiVars, stopVars, agentVars, headers, tried, calls, llmVars, workerVars>>

\* the selector loop's exit: break once an extraction returned products
AlibabaBreak(prods) == prods # <<>>

\* the loop stepping over a candidate
NextSelectorSkip(i, break) == IF break THEN Len(ALIBABA_SELECTORS) + 1 ELSE i + 2

\* "for selector in selectors": the index after i; past the end after a break
NextSelector(i, break) == IF break THEN Len(ALIBABA_SELECTORS) + 1 ELSE i + 1

\* one round of the selector loop (lines 47-57): wait_for_selector, then
\* _extract_products; a timeout moves on to the next selector
AlibabaTrySelector ==
    /\ pc = "ali_select"
    /\ tool.sel <= Len(ALIBABA_SELECTORS)
    /\ LET selector == ALIBABA_SELECTORS[tool.sel]
       IN /\ tried' = Append(tried, selector)
          /\ IF selector \notin dom.match
             THEN /\ tool' = [tool EXCEPT !.sel = NextSelector(@, FALSE)]
                  /\ UNCHANGED dom
             ELSE \E cs \in PageCards :
                    LET prods == AlibabaExtract(cs, MaxResults)
                    IN /\ dom' = [dom EXCEPT !.from = selector]
                       /\ tool' = [tool EXCEPT !.products = prods,
                                               !.sel = NextSelector(@, AlibabaBreak(prods))]
    /\ UNCHANGED <<fixture, windowVars, prior, exit_code, analysis, pc, guiVars, stopVars, agentVars, page, headers, calls, llmVars, workerVars>>

\* lines 59-64: the envelope after the loop
AlibabaEnvelope ==
    /\ pc = "ali_select"
    /\ tool.sel > Len(ALIBABA_SELECTORS)
    /\ tool' = [tool EXCEPT !.env = Envelope(TRUE, tool.products)]
    /\ pc' = "ali_return"
    /\ UNCHANGED <<fixture, windowVars, prior, exit_code, analysis, guiVars, stopVars, agentVars, page, dom, headers, tried, calls,
                   llmVars, workerVars>>

\* lines 70-72: alibaba_result, self.products.extend(alibaba_products)
AlibabaReturn ==
    /\ pc = "ali_return"
    /\ result' = [result EXCEPT !["alibaba"] = tool.env]
    /\ products' = Extend(products, tool.env.products)
    /\ tool' = NoTool
    /\ dom' = NoDom
    /\ tried' = <<>>
    /\ pc' = "rp_amazon"
    /\ UNCHANGED <<fixture, windowVars, prior, exit_code, analysis, guiVars, stopVars, browser, platforms_enabled, page, headers, calls,
                   llmVars, workerVars>>

\* lines 79-87: run the Amazon tool, or skip it
AmazonGate ==
    /\ pc = "rp_amazon"
    /\ IF PlatformEnabled("amazon")
       THEN /\ calls' = Append(calls, "amazon")
            /\ tool' = [NoTool EXCEPT !.name = "amazon", !.sel = 1]
            /\ tried' = <<>>
            /\ pc' = Awaited("amz_goto", "rp_analysis")
            /\ UNCHANGED result
       ELSE /\ result' = [result EXCEPT !["amazon"] = Skipped]
            /\ pc' = "rp_analysis"
            /\ UNCHANGED <<calls, tool, tried>>
    /\ UNCHANGED <<fixture, windowVars, prior, exit_code, analysis, guiVars, stopVars, browser, platforms_enabled, products, page, dom,
                   headers, llmVars, workerVars>>

\* AmazonScraperTool.execute: page.goto(search_url)
AmazonGoto ==
    /\ pc = "amz_goto"
    /\ \E ok \in BOOLEAN, m \in PageMatches({AMAZON_SELECTOR}) :
         IF ok
         THEN /\ page' = "amazon"
              /\ dom' = [NoDom EXCEPT !.match = m]
              /\ pc' = "amz_wait"
              /\ UNCHANGED tool
         ELSE /\ tool' = [tool EXCEPT !.env = Failure]
              /\ pc' = "amz_return"
              /\ UNCHANGED <<page, dom>>
    /\ UNCHANGED <<fixture, windowVars, prior, exit_code, analysis, guiVars, stopVars, agentVars, headers, tried, calls, llmVars, workerVars>>

\* the envelope when wait_for_selector times out: the TimeoutError reaches
\* execute's outer except
AmazonTimeout == Failure

\* lines 33-40: wait_for_selector, _extract_products, the envelope
AmazonWaitExtract ==
    /\ pc = "amz_wait"
    /\ tried' = Append(tried, AMAZON_SELECTOR)
    /\ IF AMAZON_SELECTOR \notin dom.match
       THEN /\ tool' = [tool EXCEPT !.env = AmazonTimeout]
            /\ UNCHANGED dom
       ELSE \E cs \in PageCards :
              LET prods == AmazonExtract(cs, MaxResults)
              IN /\ dom' = [dom EXCEPT !.from = AMAZON_SELECTOR]
                 /\ tool' = [tool EXCEPT !.products = prods, !.env = Envelope(TRUE, prods)]
    /\ pc' = "amz_return"
    /\ UNCHANGED <<fixture, windowVars, prior, exit_code, analysis, guiVars, stopVars, agentVars, page, headers, calls, llmVars, workerVars>>

\* lines 82-84: amazon_result, self.products.extend(amazon_products)
AmazonReturn ==
    /\ pc = "amz_return"
    /\ result' = [result EXCEPT !["amazon"] = tool.env]
    /\ products' = Extend(products, tool.env.products)
    /\ tool' = NoTool
    /\ dom' = NoDom
    /\ tried' = <<>>
    /\ pc' = "rp_analysis"
    /\ UNCHANGED <<fixture, windowVars, prior, exit_code, analysis, guiVars, stopVars, browser, platforms_enabled, page, headers, calls,
                   llmVars, workerVars>>

\* the analysis requested whatever was collected
AnalysisAlways(ps) == TRUE

\* "if self.products"
AnalysisEntered(ps) == ps # <<>>

\* len(alibaba_products), len(amazon_products): the arguments of analyze_results
AnalysisCounts ==
    [alibaba_count |-> Len(result["alibaba"].products),
     amazon_count |-> Len(result["amazon"].products)]

\* lines 90-99: analyze_results when there are products, then the return
AnalysisQuery ==
    /\ pc = "rp_analysis"
    /\ \E r \in LLMResponses :
         IF ~AnalysisEntered(products)
         THEN /\ pc' = "w_emit"
              /\ emit_i' = 1
              /\ UNCHANGED <<llm_log, exc, analysis>>
         ELSE /\ analysis' = AnalysisCounts
              /\ llm_log' = Logged(llm_log, r)
              /\ exc' = LLMQuery(r).raised
              /\ pc' = IF LLMQuery(r).raised = "none" THEN "w_emit" ELSE "w_except"
              /\ emit_i' = IF LLMQuery(r).raised = "none" THEN 1 ELSE emit_i
    /\ UNCHANGED <<fixture, windowVars, prior, exit_code, guiVars, stopVars, agentVars, toolVars, response, stats,
                   events>>

\* ------------------------------------------------- the worker, continued
\* lines 103-116: one round of the loop over the products
EmitResult ==
    /\ pc = "w_emit"
    /\ emit_i <= Len(products)
    /\ IF ~is_running
       THEN /\ pc' = "w_after_emit"
            /\ UNCHANGED <<emit_i, events>>
       ELSE /\ events' = Emit("result_added", [source |-> products[emit_i].source,
                                                product |-> products[emit_i].title])
            /\ emit_i' = emit_i + 1
            /\ UNCHANGED pc
    /\ UNCHANGED <<fixture, windowVars, prior, exit_code, analysis, guiVars, stopVars, agentVars, toolVars, llmVars, exc, stats>>

\* the empty list taken for a result to analyse
NoProductsNever(ps) == FALSE

\* "if not products"
NoProducts(ps) == ps = <<>>

\* lines 118-123: the empty result ends the run here
AfterEmit ==
    /\ \/ pc = "w_after_emit"
       \/ pc = "w_emit" /\ emit_i > Len(products)
    /\ IF NoProducts(products)
       THEN /\ events' = Append(Emit("log", "No products found"),
                                [sig |-> "finished", arg |-> <<>>])
            /\ pc' = "w_finally"
       ELSE /\ pc' = "w_analysis"
            /\ UNCHANGED events
    /\ UNCHANGED <<fixture, windowVars, prior, exit_code, analysis, guiVars, stopVars, agentVars, toolVars, llmVars, exc, emit_i, stats>>

RECURSIVE CountSource(_, _)
CountSource(ps, s) ==
    IF ps = <<>> THEN 0
    ELSE (IF Head(ps).source = s THEN 1 ELSE 0) + CountSource(Tail(ps), s)

\* df['source'].value_counts().to_dict(): the sources that occur, each with
\* its count
ValueCounts(ps) ==
    [s \in {ps[i].source : i \in DOMAIN ps} |-> CountSource(ps, s)]

\* ProductAnalyzer.get_summary_stats (the price statistics are left out)
SummaryStats(ps) ==
    IF ps = <<>> THEN [total_products |-> 0]
    ELSE [total_products |-> Len(ps), by_source |-> ValueCounts(ps)]

\* lines 125-155: the Analysis phase; export or charts may raise
WorkerAnalysis ==
    /\ pc = "w_analysis"
    /\ \E ok \in BOOLEAN :
         IF ok
         THEN /\ stats' = SummaryStats(products)
              /\ events' = Append(Emit("phase_changed", "Analysis"),
                                  [sig |-> "finished", arg |-> products])
              /\ pc' = "w_finally"
              /\ UNCHANGED exc
         ELSE /\ events' = Emit("phase_changed", "Analysis")
              /\ exc' = "ExportError"
              /\ pc' = "w_except"
              /\ UNCHANGED stats
    /\ UNCHANGED <<fixture, windowVars, prior, exit_code, analysis, guiVars, stopVars, agentVars, toolVars, llmVars, emit_i>>

\* lines 157-160: the error is emitted as text and as traceback
WorkerExcept ==
    /\ pc = "w_except"
    /\ events' = Append(Emit("error", "str(e)"), [sig |-> "error", arg |-> "Traceback"])
    /\ exc' = "none"
    /\ pc' = "w_finally"
    /\ UNCHANGED <<fixture, windowVars, prior, exit_code, analysis, guiVars, stopVars, agentVars, toolVars, llmVars, emit_i, stats>>

\* lines 161-163: agent.close() closes the browser if there is one
WorkerFinally ==
    /\ pc = "w_finally"
    /\ \E ok \in BOOLEAN :
         IF browser # "open"
         THEN /\ pc' = "done"
              /\ UNCHANGED <<browser, exc>>
         ELSE IF ok
         THEN /\ browser' = "closed"
              /\ pc' = "done"
              /\ UNCHANGED exc
         ELSE /\ exc' = "CloseError"
              /\ pc' = "w_run_except"
              /\ UNCHANGED browser
    /\ UNCHANGED <<fixture, windowVars, prior, exit_code, analysis, guiVars, stopVars, platforms_enabled, products, result, toolVars,
                   llmVars, emit_i, stats, events>>

\* ResearchWorker.run lines 49-52: what escaped _run_research
RunExcept ==
    /\ pc = "w_run_except"
    /\ events' = Append(Emit("error", "str(e)"), [sig |-> "error", arg |-> "Traceback"])
    /\ exc' = "none"
    /\ pc' = "done"
    /\ UNCHANGED <<fixture, windowVars, prior, exit_code, analysis, guiVars, stopVars, agentVars, toolVars, llmVars, emit_i, stats>>

Next ==
    \/ OnSearchRequested
    \/ StopResearch
    \/ Terminate
    \/ WorkerSetup
    \/ AgentInitialize
    \/ WorkerPhases
    \/ PlanQuery
    \/ PlanParse
    \/ AlibabaGate
    \/ AlibabaSetHeaders
    \/ AlibabaGoto
    \/ AlibabaTrySelector
    \/ AlibabaEnvelope
    \/ AlibabaReturn
    \/ AmazonGate
    \/ AmazonGoto
    \/ AmazonWaitExtract
    \/ AmazonReturn
    \/ AnalysisQuery
    \/ EmitResult
    \/ AfterEmit
    \/ WorkerAnalysis
    \/ WorkerExcept
    \/ WorkerFinally
    \/ RunExcept

Spec == Init /\ [][Next]_vars

\* ------------------------------------------- the extractors on a fixed page
\* A run that has reached the collection phase with one marketplace ticked,
\* against a page whose resolving selectors and cards are fixed.
Marketplaces == {"alibaba", "amazon"}

SelectorsOf(m) == IF m = "alibaba" THEN AlibabaSelectorSet ELSE {AMAZON_SELECTOR}

InitExtract ==
    \E m \in Marketplaces, n \in 1..MaxProducts, cs \in CardLists :
      \E mt \in SUBSET SelectorsOf(m) :
        /\ pc = "rp_alibaba"
        /\ gui_status = "researching"
        /\ search_params = [platforms |-> [p \in Platforms |-> p = m], max_products |-> n]
        /\ is_running = TRUE
        /\ terminating = FALSE
        /\ stop_at_gate = FALSE
        /\ browser = "open"
        /\ platforms_enabled = [p \in Platforms |-> p = m]
        /\ products = <<>>
        /\ result = [k \in Marketplaces |-> NoResult]
        /\ tool = NoTool
        /\ page = "blank"
        /\ dom = NoDom
        /\ fixture = [set |-> TRUE, match |-> mt, cards |-> cs]
        /\ headers = FALSE
        /\ tried = <<>>
        /\ calls = <<>>
        /\ response = "none"
        /\ llm_log = Logged(NoRequests, "conn_error")
        /\ exc = "none"
        /\ emit_i = 0
        /\ stats = NoResult
        /\ events = <<[sig |-> "phase_changed", arg |-> "Initialization"],
                      [sig |-> "phase_changed", arg |-> "Product Research"]>>
        /\ exit_code = "none"
        /\ analysis = NoResult
        /\ prior = NoResult
        /\ delivered = 0
        /\ old_worker = "none"

NextExtract ==
    \/ AlibabaGate
    \/ AlibabaSetHeaders
    \/ AlibabaGoto
    \/ AlibabaTrySelector
    \/ AlibabaEnvelope
    \/ AlibabaReturn
    \/ AmazonGate
    \/ AmazonGoto
    \/ AmazonWaitExtract
    \/ AmazonReturn

SpecExtract == InitExtract /\ [][NextExtract]_vars


\* ------------------------------------------------------- the command line
\* main.py: one process runs main() once. research_product and the
\* extractors are the agent's, as above; the labels research_product leaves
\* through ("w_emit" on return, "w_except" on an exception) are here main()'s
\* next statement and its except clause. What main() prints is kept in events.
CliPrint(text) == Append(events, [sig |-> "print", arg |-> text])

\* lines 16-40: arguments, Config, the advisory probe, the agent
CliSetup ==
    /\ pc = "cli_setup"
    /\ \E n \in 1..MaxProducts :
         search_params' = [search_params EXCEPT !.max_products = n]
    /\ pc' = "w_initialize"
    /\ UNCHANGED <<fixture, windowVars, prior, exit_code, analysis, gui_status, stopVars, agentVars, toolVars, llmVars,
                   workerVars>>

\* line 44: the one call of research_product
CliResearch ==
    /\ pc = "w_phases"
    /\ pc' = "rp_plan"
    /\ UNCHANGED <<fixture, windowVars, prior, exit_code, analysis, guiVars, stopVars, agentVars, toolVars, llmVars,
                   workerVars>>

\* lines 46-73: the empty list is reported and main returns; otherwise the
\* analysis, which may raise
CliReport ==
    /\ pc = "w_emit"
    /\ \E ok \in BOOLEAN :
         IF NoProducts(products)
         THEN /\ events' = CliPrint("No products found")
              /\ pc' = "w_finally"
              /\ UNCHANGED <<exc, stats>>
         ELSE IF ok
         THEN /\ stats' = SummaryStats(products)
              /\ events' = CliPrint("Research Complete")
              /\ pc' = "w_finally"
              /\ UNCHANGED exc
         ELSE /\ exc' = "ExportError"
              /\ pc' = "w_except"
              /\ UNCHANGED <<stats, events>>
    /\ UNCHANGED <<fixture, windowVars, prior, exit_code, analysis, guiVars, stopVars, agentVars, toolVars, llmVars, emit_i>>

\* lines 77-80: the exception is printed and swallowed
CliExcept ==
    /\ pc = "w_except"
    /\ events' = CliPrint("Error")
    /\ exc' = "none"
    /\ pc' = "w_finally"
    /\ UNCHANGED <<fixture, windowVars, prior, exit_code, analysis, guiVars, stopVars, agentVars, toolVars, llmVars,
                   emit_i, stats>>

\* asyncio.run(main()): status 0 when main() returns, 1 when an exception
\* leaves it
ExitStatus(raised) == IF raised THEN "1" ELSE "0"

\* lines 81-85: agent.close(), then the process ends
CliFinally ==
    /\ pc = "w_finally"
    /\ \E ok \in BOOLEAN :
         IF browser # "open"
         THEN /\ exit_code' = ExitStatus(FALSE)
              /\ UNCHANGED <<browser, exc>>
         ELSE IF ok
         THEN /\ browser' = "closed"
              /\ exit_code' = ExitStatus(FALSE)
              /\ UNCHANGED exc
         ELSE /\ exc' = "CloseError"
              /\ exit_code' = ExitStatus(TRUE)
              /\ UNCHANGED browser
    /\ pc' = "done"
    /\ UNCHANGED <<fixture, windowVars, prior, analysis, guiVars, stopVars, platforms_enabled, products, result, toolVars,
                   llmVars, emit_i, stats, events>>

InitCLI ==
    /\ pc = "cli_setup"
    /\ gui_status = "none"
    /\ search_params = [platforms |-> DefaultPlatforms, max_products |-> 1]
    /\ is_running = TRUE
    /\ terminating = FALSE
    /\ stop_at_gate = FALSE
    /\ browser = "none"
    /\ platforms_enabled = DefaultPlatforms
    /\ products = <<>>
    /\ result = [m \in Marketplaces |-> NoResult]
    /\ tool = NoTool
    /\ page = "none"
    /\ dom = NoDom
    /\ fixture = NoFixture
    /\ headers = FALSE
    /\ tried = <<>>
    /\ calls = <<>>
    /\ response = "none"
    /\ llm_log = NoRequests
    /\ exc = "none"
    /\ emit_i = 0
    /\ stats = NoResult
    /\ events = <<>>
    /\ exit_code = "none"
    /\ analysis = NoResult
    /\ prior = NoResult
    /\ delivered = 0
    /\ old_worker = "none"

NextCLI ==
    \/ CliSetup
    \/ AgentInitialize
    \/ CliResearch
    \/ PlanQuery
    \/ PlanParse
    \/ AlibabaGate
    \/ AlibabaSetHeaders
    \/ AlibabaGoto
    \/ AlibabaTrySelector
    \/ AlibabaEnvelope
    \/ AlibabaReturn
    \/ AmazonGate
    \/ AmazonGoto
    \/ AmazonWaitExtract
    \/ AmazonReturn
    \/ AnalysisQuery
    \/ CliReport
    \/ CliExcept
    \/ CliFinally

SpecCLI == InitCLI /\ [][NextCLI]_vars


\* ------------------------------------------------- one agent, called twice
\* A caller that holds one initialised agent and calls research_product on it
\* a second time once the first call has returned; both marketplaces are
\* enabled and both calls meet the same fixed page. "w_emit" is the caller's
\* statement after the call.
AgentSecondCall ==
    /\ pc = "w_emit"
    /\ prior = NoResult
    /\ prior' = [state |-> "returned", products |-> products]
    /\ result' = [m \in Marketplaces |-> NoResult]
    /\ emit_i' = 0
    /\ pc' = "rp_plan"
    /\ UNCHANGED <<fixture, windowVars, exit_code, analysis, guiVars, stopVars, browser, platforms_enabled,
                   products, toolVars, llmVars, exc, stats, events>>

InitAgent ==
    \E n \in 1..MaxProducts, cs \in CardLists :
      \E mt \in SUBSET {ALIBABA_SELECTORS[1], AMAZON_SELECTOR} :
        /\ pc = "rp_plan"
        /\ gui_status = "none"
        /\ search_params = [platforms |-> DefaultPlatforms, max_products |-> n]
        /\ is_running = TRUE
        /\ terminating = FALSE
        /\ stop_at_gate = FALSE
        /\ browser = "open"
        /\ platforms_enabled = DefaultPlatforms
        /\ products = <<>>
        /\ result = [k \in Marketplaces |-> NoResult]
        /\ tool = NoTool
        /\ page = "blank"
        /\ dom = NoDom
        /\ fixture = [set |-> TRUE, match |-> mt, cards |-> cs]
        /\ headers = FALSE
        /\ tried = <<>>
        /\ calls = <<>>
        /\ response = "none"
        /\ llm_log = NoRequests
        /\ exc = "none"
        /\ emit_i = 0
        /\ stats = NoResult
        /\ events = <<>>
        /\ exit_code = "none"
        /\ analysis = NoResult
        /\ prior = NoResult
        /\ delivered = 0
        /\ old_worker = "none"

NextAgent ==
    \/ PlanQuery
    \/ PlanParse
    \/ AlibabaGate
    \/ AlibabaSetHeaders
    \/ AlibabaGoto
    \/ AlibabaTrySelector
    \/ AlibabaEnvelope
    \/ AlibabaReturn
    \/ AmazonGate
    \/ AmazonGoto
    \/ AmazonWaitExtract
    \/ AmazonReturn
    \/ AnalysisQuery
    \/ AgentSecondCall

SpecAgent == InitAgent /\ [][NextAgent]_vars


\* ------------------------------------------- the main window across runs
\* The worker's finished and error signals are queued to the main window,
\* which handles them in order, some time after they were emitted. While
\* stop_research waits for the thread the window handles nothing.
TerminalSignals == SelectSeq(events, LAMBDA e : e.sig \in {"finished", "error"})

WindowBlocked == terminating /\ WorkerIsRunning

\* MainWindow.on_research_finished: the controls are enabled again
OnResearchFinished ==
    /\ ~WindowBlocked
    /\ delivered < Len(TerminalSignals)
    /\ TerminalSignals[delivered + 1].sig = "finished"
    /\ delivered' = delivered + 1
    /\ gui_status' = "complete"
    /\ UNCHANGED <<fixture, exit_code, analysis, prior, old_worker, pc, search_params, stopVars,
                   agentVars, toolVars, llmVars, workerVars>>

\* MainWindow.on_error: the controls are enabled again
OnError ==
    /\ ~WindowBlocked
    /\ delivered < Len(TerminalSignals)
    /\ TerminalSignals[delivered + 1].sig = "error"
    /\ delivered' = delivered + 1
    /\ gui_status' = "error"
    /\ UNCHANGED <<fixture, exit_code, analysis, prior, old_worker, pc, search_params, stopVars,
                   agentVars, toolVars, llmVars, workerVars>>

\* set_research_state(False) has enabled the start button and the chat input
StartEnabled == gui_status # "researching"

\* MainWindow.on_search_requested when the window already holds a worker:
\* self.worker is replaced by a new worker, which is started, whether or not
\* the thread of the previous one has ended
OnSearchRequestedAgain ==
    /\ pc # "none"
    /\ ~WindowBlocked
    /\ StartEnabled
    /\ \E pl \in [Platforms -> BOOLEAN], n \in 1..MaxProducts :
         IF ~AnyPlatform(pl)
         THEN /\ gui_status' = "no_platforms"
              /\ UNCHANGED <<pc, search_params, stopVars, agentVars, toolVars, llmVars,
                             workerVars, analysis, windowVars>>
         ELSE /\ gui_status' = "researching"
              /\ search_params' = [platforms |-> pl, max_products |-> n]
              /\ old_worker' = IF WorkerIsRunning THEN "running" ELSE old_worker
              /\ pc' = "w_setup"
              /\ is_running' = TRUE
              /\ terminating' = FALSE
              /\ stop_at_gate' = FALSE
              /\ browser' = "none"
              /\ platforms_enabled' = DefaultPlatforms
              /\ products' = <<>>
              /\ result' = [m \in {"alibaba", "amazon"} |-> NoResult]
              /\ tool' = NoTool
              /\ page' = "none"
              /\ dom' = NoDom
              /\ headers' = FALSE
              /\ tried' = <<>>
              /\ calls' = <<>>
              /\ response' = "none"
              /\ llm_log' = NoRequests
              /\ exc' = "none"
              /\ emit_i' = 0
              /\ stats' = NoResult
              /\ events' = <<>>
              /\ analysis' = NoResult
              /\ delivered' = 0
    /\ UNCHANGED <<fixture, exit_code, prior>>

\* the thread of a replaced worker comes to its end
OldWorkerEnds ==
    /\ old_worker = "running"
    /\ old_worker' = "none"
    /\ UNCHANGED <<fixture, exit_code, analysis, prior, delivered, pc, guiVars, stopVars,
                   agentVars, toolVars, llmVars, workerVars>>

\* the window before its first run, in front of a site whose pages hold one card
InitWindow ==
    \E cs \in {c \in CardLists : Len(c) = 1} :
      \E mt \in SUBSET {ALIBABA_SELECTORS[1], AMAZON_SELECTOR} :
        /\ pc = "none"
        /\ gui_status = "ready"
        /\ search_params = [platforms |-> DefaultPlatforms, max_products |-> 1]
        /\ is_running = TRUE
        /\ terminating = FALSE
        /\ stop_at_gate = FALSE
        /\ browser = "none"
        /\ platforms_enabled = DefaultPlatforms
        /\ products = <<>>
        /\ result = [k \in {"alibaba", "amazon"} |-> NoResult]
        /\ tool = NoTool
        /\ page = "none"
        /\ dom = NoDom
        /\ fixture = [set |-> TRUE, match |-> mt, cards |-> cs]
        /\ headers = FALSE
        /\ tried = <<>>
        /\ calls = <<>>
        /\ response = "none"
        /\ llm_log = NoRequests
        /\ exc = "none"
        /\ emit_i = 0
        /\ stats = NoResult
        /\ events = <<>>
        /\ exit_code = "none"
        /\ analysis = NoResult
        /\ prior = NoResult
        /\ delivered = 0
        /\ old_worker = "none"

NextWindow ==
    \/ OnSearchRequested
    \/ OnSearchRequestedAgain
    \/ OnResearchFinished
    \/ OnError
    \/ OldWorkerEnds
    \/ StopResearch
    \/ Terminate
    \/ WorkerSetup
    \/ AgentInitialize
    \/ WorkerPhases
    \/ PlanQuery
    \/ PlanParse
    \/ AlibabaGate
    \/ AlibabaSetHeaders
    \/ AlibabaGoto
    \/ AlibabaTrySelector
    \/ AlibabaEnvelope
    \/ AlibabaReturn
    \/ AmazonGate
    \/ AmazonGoto
    \/ AmazonWaitExtract
    \/ AmazonReturn
    \/ AnalysisQuery
    \/ EmitResult
    \/ AfterEmit
    \/ WorkerAnalysis
    \/ WorkerExcept
    \/ WorkerFinally
    \/ RunExcept

SpecWindow == InitWindow /\ [][NextWindow]_vars


\* ------------------------------------------- set_platforms, called directly
\* A caller that holds one initialised agent, hands set_platforms a mapping
\* of its own and then calls research_product once. The mapping may leave
\* any key out: a dict is all the annotation Dict[str, bool] asks for.
PlatformMappings == UNION {[d -> BOOLEAN] : d \in SUBSET Platforms}

\* ProductResearchAgent.set_platforms: the mapping is kept as it was passed
SetPlatforms ==
    /\ pc = "set_platforms"
    /\ \E platforms \in PlatformMappings : platforms_enabled' = platforms
    /\ pc' = "rp_plan"
    /\ UNCHANGED <<fixture, windowVars, prior, exit_code, analysis, guiVars, stopVars, browser,
                   products, result, toolVars, llmVars, exc, emit_i, stats, events>>

\* the agent after initialize, in front of a site whose pages hold one card
InitPlatforms ==
    \E n \in 1..MaxProducts, cs \in {c \in CardLists : Len(c) = 1} :
      \E mt \in SUBSET {ALIBABA_SELECTORS[1], AMAZON_SELECTOR} :
        /\ pc = "set_platforms"
        /\ gui_status = "none"
        /\ search_params = [platforms |-> DefaultPlatforms, max_products |-> n]
        /\ is_running = TRUE
        /\ terminating = FALSE
        /\ stop_at_gate = FALSE
        /\ browser = "open"
        /\ platforms_enabled = DefaultPlatforms
        /\ products = <<>>
        /\ result = [k \in Marketplaces |-> NoResult]
        /\ tool = NoTool
        /\ page = "blank"
        /\ dom = NoDom
        /\ fixture = [set |-> TRUE, match |-> mt, cards |-> cs]
        /\ headers = FALSE
        /\ tried = <<>>
        /\ calls = <<>>
        /\ response = "none"
        /\ llm_log = NoRequests
        /\ exc = "none"
        /\ emit_i = 0
        /\ stats = NoResult
        /\ events = <<>>
        /\ exit_code = "none"
        /\ analysis = NoResult
        /\ prior = NoResult
        /\ delivered = 0
        /\ old_worker = "none"

NextPlatforms ==
    \/ SetPlatforms
    \/ PlanQuery
    \/ PlanParse
    \/ AlibabaGate
    \/ AlibabaSetHeaders
    \/ AlibabaGoto
    \/ AlibabaTrySelector
    \/ AlibabaEnvelope
    \/ AlibabaReturn
    \/ AmazonGate
    \/ AmazonGoto
    \/ AmazonWaitExtract
    \/ AmazonReturn
    \/ AnalysisQuery

SpecPlatforms == InitPlatforms /\ [][NextPlatforms]_vars

\* ================================================================ claims
AtReturn == pc \in {"ali_return", "amz_return"}

\* research_product has returned its list to the worker
Returned == emit_i >= 1

ProductsOf(m) == IF result[m].state = "unset" THEN <<>> ELSE result[m].products

CardOf(m, c) == IF m = "alibaba" THEN AlibabaCard(c) ELSE AmazonCard(c)
ExtractOf(m, cs, n) == IF m = "alibaba" THEN AlibabaExtract(cs, n) ELSE AmazonExtract(cs, n)
DeclaredSelectors(m) == IF m = "alibaba" THEN ALIBABA_SELECTORS ELSE <<AMAZON_SELECTOR>>

\* C1: an extractor's execute returns at most max_results records, however
\* many cards the page holds.
C1_AtMostMaxResults ==
    /\ AtReturn => Len(tool.env.products) <= MaxResults
    /\ \A m \in Marketplaces :
         result[m].state = "returned" => Len(result[m].products) <= MaxResults

C1_Witness ==
    /\ AtReturn
    /\ fixture.set
    /\ Len(fixture.cards) > MaxResults
    /\ Len(tool.env.products) = MaxResults

\* every existing title element of the card holds only whitespace
BlankTitled(c) ==
    /\ ~c.raises
    /\ \E i \in DOMAIN c.titles : c.titles[i].found
    /\ \A i \in DOMAIN c.titles : c.titles[i].found => strip(c.titles[i].text) = <<>>

\* C2: every record an extractor returns has a non-empty title without
\* leading or trailing whitespace, and a page whose cards all have
\* whitespace-only title text yields no record.
C2_TitlesNonEmptyTrimmed ==
    AtReturn =>
      /\ \A i \in DOMAIN tool.env.products :
           LET t == tool.env.products[i].title IN t # <<>> /\ strip(t) = t
      /\ (fixture.set /\ \A i \in DOMAIN fixture.cards : BlankTitled(fixture.cards[i]))
            => tool.env.products = <<>>

\* every title alternative fails, or a query on the card raises
C3_Fails(c) == c.raises \/ \A i \in DOMAIN c.titles : ~c.titles[i].found

C3_Kept(m, cs) == {i \in DOMAIN cs : CardOf(m, cs[i]) # <<>>}

\* the j-th smallest index of K
NthOf(K, j) == CHOOSE i \in K : Cardinality({k \in K : k <= i}) = j

\* C3: a card whose title alternatives all fail, or whose extraction raises,
\* is dropped and nothing else changes: the envelope is a success and holds,
\* in page order, one record for each of the first max_results cards that
\* the extractor keeps.
C3_DroppedCardsLeaveTheRest ==
    (AtReturn /\ fixture.set /\ dom.from # "none") =>
      LET cs == SubSeq(fixture.cards, 1, Min(MaxResults, Len(fixture.cards)))
          K == C3_Kept(tool.name, cs)
          ps == tool.env.products
      IN /\ tool.env.success
         /\ \A i \in DOMAIN cs : C3_Fails(cs[i]) => i \notin K
         /\ Len(ps) = Cardinality(K)
         /\ \A j \in DOMAIN ps : ps[j] = CardOf(tool.name, cs[NthOf(K, j)])[1]

C3_Witness ==
    /\ AtReturn
    /\ fixture.set
    /\ Len(fixture.cards) = 2
    /\ MaxResults = 2
    /\ C3_Fails(fixture.cards[1])
    /\ tool.env.success
    /\ Len(tool.env.products) = 1

\* C4: the container selectors are awaited in their declared order, and when
\* only the k-th resolves the envelope is a success holding the records
\* extracted through that selector, after the k-1 before it were awaited.
C4_SelectorsInDeclaredOrder ==
    AtReturn =>
      LET sels == DeclaredSelectors(tool.name)
      IN /\ Len(tried) <= Len(sels)
         /\ \A i \in DOMAIN tried : tried[i] = sels[i]
         /\ \A k \in DOMAIN sels :
              (fixture.set /\ fixture.match = {sels[k]} /\ page = tool.name) =>
                /\ tool.env = Envelope(TRUE, ExtractOf(tool.name, fixture.cards, MaxResults))
                /\ dom.from = sels[k]
                /\ Len(tried) >= k

C4_Witness ==
    /\ pc = "ali_return"
    /\ fixture.set
    /\ fixture.match = {ALIBABA_SELECTORS[3]}
    /\ tried = SubSeq(ALIBABA_SELECTORS, 1, 3)
    /\ tool.env.success
    /\ tool.env.products # <<>>

InCalls(m) == \E i \in DOMAIN calls : calls[i] = m

BothOff == ~platforms_enabled["alibaba"] /\ ~platforms_enabled["amazon"]

\* the worker's agent exists: set_platforms has been applied
AgentSet == pc \notin {"none", "w_setup"}

\* C5: a marketplace whose toggle is false is never invoked and contributes
\* no record; with both toggles false research_product invokes neither
\* extractor, raises nothing once collection has begun, and returns the empty
\* list.
C5_DisabledMarketplaceSkipped ==
    AgentSet =>
      /\ \A m \in Marketplaces :
           ~platforms_enabled[m] =>
             /\ ~InCalls(m)
             /\ result[m].state # "returned"
             /\ \A i \in DOMAIN products : products[i].source # m
      /\ BothOff =>
           /\ calls = <<>>
           /\ products = <<>>
           /\ pc = "w_except" => result["alibaba"].state = "unset"
           /\ Returned => \A m \in Marketplaces : result[m] = Skipped

C5_Witness ==
    /\ BothOff
    /\ pc = "done"
    /\ calls = <<>>
    /\ result["alibaba"] = Skipped
    /\ result["amazon"] = Skipped
    /\ events[Len(events)] = [sig |-> "finished", arg |-> <<>>]

\* C6: when stop() is called after the Alibaba extractor has returned and
\* before the Amazon extractor is started, the Amazon extractor is never
\* invoked and the products hold only Alibaba records.
C6_StopBetweenMarketplaces ==
    (stop_at_gate /\ InCalls("alibaba")) =>
      /\ ~InCalls("amazon")
      /\ \A i \in DOMAIN products : products[i].source = "alibaba"

\* C7: whatever the advisory service answers, a returned research_product has
\* invoked the enabled extractors in order and returns their records in
\* order; and when every request was answered with a non-2xx status the
\* advisory calls raise nothing.
C7_Non2xxAdvisoryChangesNothing ==
    /\ Returned =>
         /\ products = ProductsOf("alibaba") \o ProductsOf("amazon")
         /\ calls = SelectSeq(<<"alibaba", "amazon">>, LAMBDA m : platforms_enabled[m])
    /\ (llm_log.requests >= 1 /\ llm_log.all_non2xx) =>
         /\ exc \in {"none", "ExportError", "CloseError"}
         /\ llm_log.requests = 2 => Returned \/ pc = "terminated"

C7_Witness ==
    /\ llm_log.requests = 2
    /\ llm_log.all_non2xx
    /\ pc = "done"
    /\ Len(products) = 2
    /\ events[Len(events)] = [sig |-> "finished", arg |-> products]

BothOn == platforms_enabled["alibaba"] /\ platforms_enabled["amazon"]

CountOf(m) == Len(ProductsOf(m))

\* C8 as stated: with both marketplaces enabled the returned list is the a
\* Alibaba records followed by the b Amazon records, and the summary's
\* per-source counts are {alibaba: a, amazon: b}.
C8_CountsForBothSources ==
    BothOn =>
      /\ Returned =>
           /\ products = ProductsOf("alibaba") \o ProductsOf("amazon")
           /\ Len(products) = CountOf("alibaba") + CountOf("amazon")
      /\ stats # NoResult =>
           stats.by_source = [m \in Marketplaces |-> CountOf(m)]

\* C8 amended: with both marketplaces enabled the returned list is the a
\* Alibaba records followed by the b Amazon records, each in the order its
\* extractor returned them, and the summary counts a+b records in all and
\* a (b) for a marketplace that yielded at least one record; a marketplace
\* that yielded none has no entry in by_source.
C8_WholesaleThenRetail ==
    BothOn =>
      /\ Returned =>
           /\ products = ProductsOf("alibaba") \o ProductsOf("amazon")
           /\ Len(products) = CountOf("alibaba") + CountOf("amazon")
           /\ \A m \in Marketplaces :
                \A i \in DOMAIN result[m].products : result[m].products[i].source = m
      /\ stats # NoResult =>
           /\ stats.total_products = CountOf("alibaba") + CountOf("amazon")
           /\ DOMAIN stats.by_source = {m \in Marketplaces : CountOf(m) > 0}
           /\ \A m \in DOMAIN stats.by_source : stats.by_source[m] = CountOf(m)

C8_Witness ==
    /\ BothOn
    /\ pc = "done"
    /\ stats # NoResult
    /\ CountOf("alibaba") = 1
    /\ CountOf("amazon") = 2
    /\ stats.by_source = [m \in Marketplaces |-> CountOf(m)]
    /\ products[1].source = "alibaba"
    /\ products[3].source = "amazon"

\* C9: an extractor's envelope is a failure only when navigation failed; once
\* the search page has loaded, a container selector that does not resolve
\* gives a success envelope with an empty list.
C9_FailureOnlyForNavigation ==
    AtReturn =>
      /\ ~tool.env.success => page # tool.name
      /\ (page = tool.name /\ dom.from = "none") => tool.env = Envelope(TRUE, <<>>)
      /\ (page = tool.name /\ dom.from # "none") => tool.env = Envelope(TRUE, tool.products)

Failed(m) == result[m].state = "returned" /\ ~result[m].success

Other(m) == IF m = "alibaba" THEN "amazon" ELSE "alibaba"

\* C10: an extractor's failure is an envelope with success false and no
\* products, never an exception in research_product; the other enabled
\* marketplace is invoked all the same and the returned list holds its
\* records.
C10_FailureDoesNotAbortTheOther ==
    /\ AtReturn => exc = "none"
    /\ AtReturn /\ ~tool.env.success => tool.env.products = <<>>
    /\ \A m \in Marketplaces :
         Failed(m) =>
           /\ result[m].products = <<>>
           /\ exc \in {"none", "IndexError", "TypeError", "ExportError", "CloseError"}
           /\ (platforms_enabled[Other(m)] /\ pc \notin {"rp_amazon", "terminated"})
                 => InCalls(Other(m))
           /\ Returned => products = ProductsOf(Other(m))

C10_Witness ==
    /\ Failed("alibaba")
    /\ result["amazon"].state = "returned"
    /\ result["amazon"].success
    /\ Len(products) = 2
    /\ pc = "done"
    /\ events[Len(events)] = [sig |-> "finished", arg |-> products]

\* the run is over: the worker returned, or its thread was ended
RunOver == pc \in {"done", "terminated"}

\* C11: on every exit path of a run that acquired the browser session
\* (normal completion, the zero-records return, an exception, cancellation
\* through stop) ProductResearchAgent.close has been executed when the run is
\* over: a browser still open then is one whose close() was called and raised.
C11_BrowserClosedOnEveryExit ==
    (RunOver /\ browser = "open") => pc = "done"

RECURSIVE CountSig(_, _)
CountSig(es, sig) ==
    IF es = <<>> THEN 0
    ELSE (IF Head(es).sig = sig THEN 1 ELSE 0) + CountSig(Tail(es), sig)

\* C12: every record an extractor returned has been emitted through
\* result_added before the next extractor is invoked: when the Amazon
\* extractor is entered, the Alibaba records have all been emitted.
C12_RecordsStreamedAsReturned ==
    InCalls("amazon") => CountSig(events, "result_added") >= CountOf("alibaba")

\* the events an action has added
NewEvents == SubSeq(events', Len(events) + 1, Len(events'))

\* C13: once stop() has cleared the flag, no step of the run emits a record,
\* starts an extractor, announces the Analysis phase or emits finished.
C13_NothingAfterStop ==
    [][~is_running =>
         /\ calls' = calls
         /\ \A i \in DOMAIN NewEvents :
              /\ NewEvents[i].sig \notin {"result_added", "finished"}
              /\ NewEvents[i] # [sig |-> "phase_changed", arg |-> "Analysis"]]_vars

\* the advisory requests that fail: no connection, a non-2xx status, a 2xx
\* body that is not JSON, that lacks a key, or whose choices are empty or null
AdvisoryFailures == {"conn_error", "non2xx", "not_json", "missing_key",
                     "empty_choices", "null_choices"}

\* C14: where the run calls LLMClient.query, every failing advisory request
\* makes query return the empty string and raise nothing.
C14_QueryNeverRaises ==
    pc \in {"rp_plan", "rp_analysis"} =>
      \A r \in AdvisoryFailures : LLMQuery(r) = [raised |-> "none", text |-> "empty"]

\* the texts LLMClient.query can return to plan_research
AdvisoryTexts == {"object", "bad_steps", "list", "prose", "empty"}

\* C15: a run that has received the plan's advisory text goes on in the same
\* way whatever that text is: any other text in its place leaves
\* research_product to continue (or to raise) exactly as this one does.
C15_AdvisoryTextNeverGates ==
    pc = "rp_plan_parse" =>
      \A t \in AdvisoryTexts :
         PlanPrintRaises(PlanOf(t)) = PlanPrintRaises(PlanOf(response))

\* research_product returned the empty list and the worker is past its
\* "no products" branch
ZeroRecordRun == Returned /\ products = <<>> /\ pc \in {"w_finally", "w_run_except", "done"}

\* the events other than error, in order
NonErrorEvents == SelectSeq(events, LAMBDA e : e.sig # "error")

NoProductsNotice == [sig |-> "log", arg |-> "No products found"]

CliRunFailed == \E i \in DOMAIN events : events[i] = [sig |-> "print", arg |-> "Error"]

\* C17: the command line invokes the core once, and a process whose run
\* failed with an unhandled error exits with a non-zero status.
C17_FailedRunExitsNonZero ==
    /\ llm_log.requests <= 2
    /\ Len(calls) <= 2
    /\ (pc = "done" /\ CliRunFailed) => exit_code # "0"

\* initialize has been called and left the agent without a page
InitFailed == page = "none" /\ pc \notin {"none", "w_setup", "w_initialize", "terminated"}

\* C18: when acquiring the browser session fails the run is aborted: no
\* advisory request is made, no extractor is invoked, no record is produced
\* or emitted, no finished event is emitted, the failure is reported through
\* an error event, and initialize is entered only once per run.
C18_InitFailureAbortsTheRun ==
    /\ [](InitFailed =>
            /\ pc \in {"w_except", "w_finally", "w_run_except", "done"}
            /\ calls = <<>>
            /\ products = <<>>
            /\ llm_log.requests = 0
            /\ CountSig(events, "result_added") = 0
            /\ CountSig(events, "finished") = 0
            /\ pc # "w_except" => CountSig(events, "error") > 0)
    /\ [][(pc' = "w_initialize" /\ pc # "w_initialize") => pc = "w_setup"]_vars

C18_Witness ==
    /\ InitFailed
    /\ pc = "done"
    /\ browser = "closed"
    /\ events = <<[sig |-> "phase_changed", arg |-> "Initialization"],
                  [sig |-> "error", arg |-> "str(e)"],
                  [sig |-> "error", arg |-> "Traceback"]>>

\* C19: an exception that escapes a phase or the teardown is surfaced once:
\* the run emits at most one error event, and emits it only after closing the
\* browser has been attempted.
C19_ErrorSurfacedOnceAfterCleanup ==
    /\ CountSig(events, "error") <= 1
    /\ CountSig(events, "error") >= 1 => pc # "w_finally"

\* the phases of a run in their order; finished announces the last one
PhaseOrder == <<"Initialization", "Market Research", "Product Research", "Analysis", "Done">>

PhaseOf(e) == IF e.sig = "finished" THEN "Done" ELSE e.arg

PhaseEvents == SelectSeq(events, LAMBDA e : e.sig \in {"phase_changed", "finished"})

\* the phases the run has announced, in order
Phases == [i \in DOMAIN PhaseEvents |-> PhaseOf(PhaseEvents[i])]

Rank(p) == CHOOSE k \in DOMAIN PhaseOrder : PhaseOrder[k] = p

Announced(p) == \E i \in DOMAIN Phases : Phases[i] = p

C21_AnalysisIffRecords ==
    /\ analysis # NoResult =>
         /\ products # <<>>
         /\ pc # "terminated"
         /\ analysis = [alibaba_count |-> CountOf("alibaba"), amazon_count |-> CountOf("amazon")]
         /\ analysis.alibaba_count + analysis.amazon_count = Len(products)
         /\ llm_log.requests = 2
    /\ Returned => (analysis # NoResult <=> products # <<>>)
    /\ (Returned /\ products = <<>>) => llm_log.requests = 1

C21_Witness ==
    /\ pc = "done"
    /\ analysis = [alibaba_count |-> 1, amazon_count |-> 2]
    /\ Len(products) = 3

\* no price alternative of the card yields text
NoPriceText(c) == \A j \in DOMAIN c.prices : ~c.prices[j].found \/ strip(c.prices[j].text) = <<>>

\* C22: every record an extractor returns has a price that is non-empty
\* text or the sentinel "N/A", never the empty string, and a kept card none
\* of whose price alternatives yields text has the price "N/A".
C22_PriceTextOrSentinel ==
    AtReturn =>
      /\ \A i \in DOMAIN tool.env.products : tool.env.products[i].price # <<>>
      /\ fixture.set =>
           \A k \in 1..Min(Len(fixture.cards), MaxResults) :
              LET c == fixture.cards[k]
              IN (CardOf(tool.name, c) # <<>> /\ NoPriceText(c)) =>
                    CardOf(tool.name, c)[1].price = NA

\* the first declared Alibaba container selector that resolves on the page,
\* 0 when none does
FirstResolving ==
    IF \E k \in DOMAIN ALIBABA_SELECTORS : ALIBABA_SELECTORS[k] \in fixture.match
    THEN CHOOSE k \in DOMAIN ALIBABA_SELECTORS :
           /\ ALIBABA_SELECTORS[k] \in fixture.match
           /\ \A j \in 1..(k - 1) : ALIBABA_SELECTORS[j] \notin fixture.match
    ELSE 0

\* C23: the Alibaba extractor stops at the first container selector it has
\* awaited successfully, extracts with it and awaits no later candidate,
\* whatever the number of records extracted; when no candidate resolves it
\* returns a success envelope with no products.
C23_FirstResolvedSelectorEndsTheSearch ==
    (pc = "ali_return" /\ fixture.set /\ page = "alibaba") =>
      IF FirstResolving = 0
      THEN tool.env = Envelope(TRUE, <<>>)
      ELSE /\ Len(tried) = FirstResolving
           /\ dom.from = ALIBABA_SELECTORS[FirstResolving]
           /\ tool.env = Envelope(TRUE, AlibabaExtract(fixture.cards, MaxResults))

\* C24: whichever toggles are set, an extractor that is about to navigate to
\* its search URL has the request header profile set on the page.
C24_HeadersSetBeforeNavigation ==
    pc \in {"ali_goto", "amz_goto"} => headers

\* execute was entered for the marketplace and has not returned
InProgress(m) == InCalls(m) /\ result[m].state = "unset" /\ pc # "terminated"

\* C25: at most one extractor execution is in progress at any time, the
\* Amazon extractor is entered only after the Alibaba extractor's execute has
\* returned (or was skipped), and an execution in progress works on the one
\* page the agent opened at initialisation.
C25_ExtractorsRunOneAtATime ==
    /\ ~(InProgress("alibaba") /\ InProgress("amazon"))
    /\ (InCalls("amazon") /\ pc # "terminated") => result["alibaba"].state \in {"returned", "skipped"}
    /\ \A m \in Marketplaces :
         InProgress(m) =>
           /\ tool.name = m
           /\ page \in {"blank", "alibaba", "amazon"}
           /\ browser = "open"

C25_Witness ==
    /\ InProgress("amazon")
    /\ result["alibaba"].state = "returned"
    /\ result["alibaba"].products # <<>>
    /\ page = "amazon"

\* C26: the main window starts a worker only for a request in which at
\* least one marketplace, Alibaba or Amazon, is enabled.
C26_RunNeedsAMarketplace ==
    pc # "none" => (search_params.platforms["alibaba"] \/ search_params.platforms["amazon"])

\* what earlier calls on the agent left in the accumulator
PriorProducts == IF prior = NoResult THEN <<>> ELSE prior.products

\* C27: the agent's accumulator only grows. No step removes, replaces or
\* reorders a record already in it; a returned research_product call has
\* appended its Alibaba records and then its Amazon records to what the list
\* held before, so a second call on the same agent returns the first call's
\* records followed by the new ones.
C27_AccumulatorOnlyGrows ==
    /\ [](Returned =>
            products = PriorProducts \o ProductsOf("alibaba") \o ProductsOf("amazon"))
    /\ [][/\ Len(products') >= Len(products)
          /\ SubSeq(products', 1, Len(products)) = products]_vars

C27_Witness ==
    /\ prior # NoResult
    /\ Len(PriorProducts) = 2
    /\ Returned
    /\ Len(products) = 4
    /\ products[1].source = "alibaba"
    /\ products[2].source = "amazon"
    /\ products[3].source = "alibaba"
    /\ products[4].source = "amazon"

\* C28: a worker run emits finished at most once and never both finished
\* and error.
C28_FinishedExcludesError ==
    /\ CountSig(events, "finished") <= 1
    /\ ~(CountSig(events, "finished") >= 1 /\ CountSig(events, "error") >= 1)

\* C29: at most one ResearchWorker thread is executing at any time; the
\* window starts no new worker while the thread of the previous one has not
\* ended, not even while that worker closes its browser after its finished
\* or error signal.
C29_OneWorkerAtATime == ~(old_worker = "running" /\ WorkerIsRunning)

\* C30: research_product reads a marketplace whose key is missing from the
\* mapping given to set_platforms as enabled: each extractor is invoked
\* unless the mapping holds the value false for it, it is skipped only when
\* the mapping holds false for it, and after set_platforms({}) a returned
\* call has invoked both extractors, Alibaba first.
ExplicitlyOff(m) == m \in DOMAIN platforms_enabled /\ ~platforms_enabled[m]

C30_MissingKeyMeansEnabled ==
    /\ \A m \in Marketplaces :
         /\ InCalls(m) => ~ExplicitlyOff(m)
         /\ result[m] = Skipped => ExplicitlyOff(m)
         /\ result[m] # NoResult => (InCalls(m) <=> ~ExplicitlyOff(m))
    /\ pc = "w_emit" =>
         calls = SelectSeq(<<"alibaba", "amazon">>, LAMBDA m : ~ExplicitlyOff(m))

C30_Witness ==
    /\ pc = "w_emit"
    /\ DOMAIN platforms_enabled = {}
    /\ calls = <<"alibaba", "amazon">>

====
